---- MODULE Spec2Model ----
(***************************************************************************)
(* The todo controllers of raccoon (src/controllers/todo_controllers.rs):  *)
(* four request handlers, each issuing parameterised SQL statements        *)
(* against the table todo_list of a PostgreSQL store.                      *)
(*                                                                         *)
(* The store is assumed reachable.  It executes each statement atomically  *)
(* (row-level atomicity per statement), and its clock, read by NOW(), is   *)
(* strictly increasing from one statement execution to the next.           *)
(***************************************************************************)
EXTENDS Integers, Sequences, FiniteSets, TLC

\* ------------------------------------------------------------------ bounds
MaxClock == 3      \* statements the store executes in a run
MaxPage == 1       \* largest page number requested
MaxRows == 2       \* largest rowsPerPage requested

Users == {"u1", "u2"}          \* authenticated identities (JwtClaims.id)
Uuids == {1, 2, 3}             \* values Uuid::new_v4() and the route parameter draw from
Strings == {"", "a"}           \* string values of title and description
Slots == {1, 2}                \* edit requests that can be in flight together

\* Option<T>: None is <<>>, Some(v) is <<v>>.
None == <<>>
Some(v) == <<v>>

VARIABLES
    todo_list,           \* the table todo_list, in the store's (heap) order
    clock,               \* the store's clock; NOW() of the next statement is clock + 1
    req,                 \* the request of the last completed handler
    resp,                \* the response that handler returned
    repeats,             \* how many times in a row req has now been handled, less one
    inflight,            \* per slot: None, or Some(edit request whose UPDATE is pending)
    race                 \* None, or Some(record of two edits of one row in flight together)

vars == <<todo_list, clock, req, resp, repeats, inflight, race>>

\* ----------------------------------------------------------- the store
Min(a, b) == IF a < b THEN a ELSE b

\* Where(rows, user): the rows with fk_user_id = user, in store order.
Where(rows, user) == SelectSeq(rows, LAMBDA r : r.fk_user_id = user)

\* A row of todo_list.
Row(id, title, description, user, now) ==
    [id |-> id, title |-> title, description |-> description,
     fk_user_id |-> user, last_update |-> now]

\* last_update of an inserted row: the INSERT names no last_update, the
\* column's default is the time of the insert.
DefaultLastUpdate(now) == now

\* COALESCE($n, column): the bound value unless it is NULL.
COALESCE(arg, column) == IF arg = None THEN column ELSE arg[1]

\* sqlx fetch_one: the first row of the statement's result, or RowNotFound.
fetch_one(result) ==
    IF ~result.ok THEN [ok |-> FALSE, rows |-> <<>>, error |-> result.error]
    ELSE IF result.rows = <<>> THEN [ok |-> FALSE, rows |-> <<>>, error |-> "RowNotFound"]
    ELSE [ok |-> TRUE, rows |-> <<result.rows[1]>>, error |-> ""]

\* sqlx fetch_all: every row of the statement's result; no rows is no error.
fetch_all(result) ==
    IF ~result.ok THEN [ok |-> FALSE, rows |-> <<>>, error |-> result.error]
    ELSE [ok |-> TRUE, rows |-> result.rows, error |-> ""]

\* Variant: ON CONFLICT (id) DO UPDATE, the taken id's row is overwritten.
InsertStmtUpsert(table, id, title, description, user, now) ==
    LET row == Row(id, title, description, user, DefaultLastUpdate(now))
    IN IF \E i \in 1..Len(table) : table[i].id = id
       THEN [table |-> [i \in 1..Len(table) |-> IF table[i].id = id THEN row ELSE table[i]],
             ok |-> TRUE, rows |-> <<row>>, error |-> ""]
       ELSE [table |-> Append(table, row), ok |-> TRUE, rows |-> <<row>>, error |-> ""]

\* INSERT INTO todo_list (id, title, description, fk_user_id) VALUES ($1..$4)
\* ON CONFLICT (id) DO NOTHING RETURNING *
InsertStmt(table, id, title, description, user, now) ==
    IF \E i \in 1..Len(table) : table[i].id = id
    THEN [table |-> table, ok |-> TRUE, rows |-> <<>>, error |-> ""]
    ELSE LET row == Row(id, title, description, user, DefaultLastUpdate(now))
         IN [table |-> Append(table, row), ok |-> TRUE, rows |-> <<row>>, error |-> ""]

\* Variant: WHERE id = $4, the owner is not compared.
EditWhereAnyOwner(r, user, id) == r.id = id

\* ... WHERE fk_user_id = $3 AND id = $4
EditWhere(r, user, id) == r.fk_user_id = user /\ r.id = id

\* Variant: description = COALESCE($2, title), the wrong column as fallback.
EditSetTypo(r, cols, title, description, now) ==
    [r EXCEPT !.title = IF "title" \in cols THEN COALESCE(title, @) ELSE @,
              !.description = IF "description" \in cols THEN COALESCE(description, r.title) ELSE @,
              !.last_update = IF "last_update" \in cols THEN now ELSE @]

\* SET title = COALESCE($1, title), description = COALESCE($2, description),
\*     last_update = NOW()        (restricted to the columns in cols)
EditSet(r, cols, title, description, now) ==
    [r EXCEPT !.title = IF "title" \in cols THEN COALESCE(title, @) ELSE @,
              !.description = IF "description" \in cols THEN COALESCE(description, @) ELSE @,
              !.last_update = IF "last_update" \in cols THEN now ELSE @]

\* Variant: the title in one UPDATE, the description and timestamp in a second.
EditStatementsSplit == << {"title"}, {"description", "last_update"} >>

\* The UPDATE statements edit_todo issues, each as the set of columns it
\* sets: one statement setting all three.
EditStatements == << {"title", "description", "last_update"} >>

\* The rows the UPDATE returns: it has no RETURNING clause.
EditReturning(updated) == <<>>

\* One UPDATE, executed atomically.  The store keeps the new row version in
\* place or puts it at the end of the heap (moved).
UpdateStmt(table, cols, title, description, user, id, now, moved) ==
    LET hit(r) == EditWhere(r, user, id)
        set(r) == EditSet(r, cols, title, description, now)
        old == SelectSeq(table, hit)
        new == [j \in 1..Len(old) |-> set(old[j])]
        inplace == [i \in 1..Len(table) |-> IF hit(table[i]) THEN set(table[i]) ELSE table[i]]
        atend == SelectSeq(table, LAMBDA r : ~hit(r)) \o new
    IN [table |-> IF moved THEN atend ELSE inplace,
        ok |-> TRUE, rows |-> EditReturning(new), error |-> ""]

\* The relations of the schema: the one table.
Relations == {"todo_list"}

\* SELECT * FROM <relation>: an unknown relation is an error of the statement.
SelectFrom(table, relation) ==
    IF relation \in Relations
    THEN [ok |-> TRUE, rows |-> table, error |-> ""]
    ELSE [ok |-> FALSE, rows |-> <<>>, error |-> "UndefinedTable"]

\* The relation get_todo_by_id reads: FROM Todo, an unquoted identifier,
\* which the store folds to lower case.
GetRelation == "todo"

\* The relation get_all_todo reads.
ListRelation == "todo_list"

\* SELECT * FROM Todo WHERE id = $1 AND fk_user_id = $2
GetStmt(table, id, user) ==
    LET from == SelectFrom(table, GetRelation)
    IN [from EXCEPT !.rows = SelectSeq(@, LAMBDA r : r.id = id /\ r.fk_user_id = user)]

\* Variant: OFFSET bound to current_page alone.
OffsetPageOnly(current_page, no_of_rows) == current_page

\* OFFSET $2, bound to current_page * no_of_rows
Offset(current_page, no_of_rows) == current_page * no_of_rows

\* SELECT * FROM todo_list WHERE fk_user_id = $3 LIMIT $1 OFFSET $2
ListStmt(table, limit, offset, user) ==
    LET from == SelectFrom(table, ListRelation)
        mine == Where(from.rows, user)
    IN [from EXCEPT !.rows = SubSeq(mine, offset + 1, Min(offset + limit, Len(mine)))]

\* ------------------------------------------------------- the handlers' parts
\* TodoInformation flattened to (field name, string value) pairs.
collect_as_strings(payload) ==
    << <<"title", payload.title[1]>>, <<"description", payload.description[1]>> >>

\* The validation loop of add_todo: "<key> is empty" for every empty value.
RECURSIVE bad_request_errors(_)
bad_request_errors(entries) ==
    IF entries = <<>> THEN <<>>
    ELSE LET e == Head(entries)
             rest == bad_request_errors(Tail(entries))
         IN IF e[2] = "" THEN <<e[1] \o " is empty">> \o rest ELSE rest

\* i32::to_string / usize::to_string for a non-negative integer: its decimal
\* digits, most significant first.
Digit(d) == <<"0", "1", "2", "3", "4", "5", "6", "7", "8", "9">>[d + 1]
RECURSIVE to_string(_)
to_string(n) == IF n < 10 THEN <<Digit(n)>> ELSE Append(to_string(n \div 10), Digit(n % 10))

Response(status, todo, page, rows, error) ==
    [status |-> status, todo |-> todo, currentPage |-> page, noOfRows |-> rows,
     error |-> error]

Request(op, user, id, title, description, pagination) ==
    [op |-> op, user |-> user, id |-> id, title |-> title,
     description |-> description, pagination |-> pagination]

\* Variant: a non-empty error list is answered as an error.
add_todo_response_validating(errors, new_todo) ==
    IF errors # <<>> THEN Response("ServerError", <<>>, <<>>, <<>>, errors[1])
    ELSE IF new_todo.ok
    THEN Response("CREATED", new_todo.rows, <<>>, <<>>, "")
    ELSE Response("ServerError", <<>>, <<>>, <<>>, new_todo.error)

\* add_todo, the match on the INSERT's result; errors is the list the
\* validation loop built, which the handler never reads.
add_todo_response(errors, new_todo) ==
    IF new_todo.ok
    THEN Response("CREATED", new_todo.rows, <<>>, <<>>, "")
    ELSE Response("ServerError", <<>>, <<>>, <<>>, new_todo.error)

\* edit_todo, the match on the UPDATE's result.
edit_todo_response(updated_todo) ==
    IF updated_todo.ok
    THEN Response("OK", updated_todo.rows, <<>>, <<>>, "")
    ELSE Response("NotFound", <<>>, <<>>, <<>>, updated_todo.error)

\* get_todo_by_id, the match on the SELECT's result.
get_todo_by_id_response(fetched_todo) ==
    IF fetched_todo.ok
    THEN Response("OK", fetched_todo.rows, <<>>, <<>>, "")
    ELSE Response("NotFound", <<>>, <<>>, <<>>, fetched_todo.error)

\* get_all_todo, the match on the SELECT's result.
get_all_todo_response(fetched_todo, pagination) ==
    IF fetched_todo.ok
    THEN Response("OK", fetched_todo.rows, to_string(pagination.page),
                  to_string(pagination.no_of_rows), "")
    ELSE Response("NotFound", <<>>, <<>>, <<>>, fetched_todo.error)

\* ------------------------------------------------------------ the machine
Pagination == [page : 0..MaxPage, no_of_rows : 0..MaxRows]

NoRequest == Request("none", "", None, None, None, None)
NoResponse == Response("none", <<>>, <<>>, <<>>, "")

Init ==
    /\ todo_list = <<>>
    /\ clock = 0
    /\ req = NoRequest
    /\ resp = NoResponse
    /\ repeats = 0
    /\ inflight = [s \in Slots |-> None]
    /\ race = None

\* The request r has been handled and answered.
Handled(r, response) ==
    /\ req' = r
    /\ resp' = response
    /\ repeats' = IF r = req THEN repeats + 1 ELSE 0

\* POST: validate, mint an id, insert, answer.
add_todo(user, payload, todo_id) ==
    /\ clock < MaxClock
    /\ LET errors == bad_request_errors(collect_as_strings(payload))
           stmt == InsertStmt(todo_list, todo_id, payload.title[1],
                              payload.description[1], user, clock + 1)
       IN /\ todo_list' = stmt.table
          /\ Handled(Request("add", user, Some(todo_id), payload.title,
                             payload.description, None),
                     add_todo_response(errors, fetch_one(stmt)))
    /\ clock' = clock + 1
    /\ UNCHANGED <<inflight, race>>

\* The statements k..Len(EditStatements) of an edit, run one after the other
\* from time now: the table they leave and the result of the last one.
RECURSIVE EditRun(_, _, _, _, _, _)
EditRun(table, k, e, user, now, moved) ==
    LET stmt == UpdateStmt(table, EditStatements[k], e.title, e.description,
                           user, e.id, now, moved)
    IN IF k = Len(EditStatements) THEN stmt
       ELSE EditRun(stmt.table, k + 1, e, user, now + 1, moved)

\* PUT: update, answer.  The handler as one step.
edit_todo(user, todo_id, payload, moved) ==
    /\ clock + Len(EditStatements) <= MaxClock
    /\ LET e == [id |-> todo_id, title |-> payload.title, description |-> payload.description]
           stmt == EditRun(todo_list, 1, e, user, clock + 1, moved)
       IN /\ todo_list' = stmt.table
          /\ Handled(Request("edit", user, Some(todo_id), payload.title,
                             payload.description, None),
                     edit_todo_response(fetch_one(stmt)))
    /\ clock' = clock + Len(EditStatements)
    /\ UNCHANGED <<inflight, race>>

\* GET by id.
get_todo_by_id(user, note_id) ==
    /\ clock < MaxClock
    /\ Handled(Request("get", user, Some(note_id), None, None, None),
               get_todo_by_id_response(fetch_one(GetStmt(todo_list, note_id, user))))
    /\ clock' = clock + 1
    /\ UNCHANGED <<todo_list, inflight, race>>

\* GET list.  pagination is the Query<Pagination> of the request or, when
\* the query is absent, Pagination::default(), which the source does not
\* show: any pair may be it.
get_all_todo(user, pagination) ==
    /\ clock < MaxClock
    /\ LET stmt == ListStmt(todo_list, pagination.no_of_rows,
                            Offset(pagination.page, pagination.no_of_rows), user)
       IN Handled(Request("list", user, None, None, None, Some(pagination)),
                  get_all_todo_response(fetch_all(stmt), pagination))
    /\ clock' = clock + 1
    /\ UNCHANGED <<todo_list, inflight, race>>

CreatePayloads == [title : {Some(v) : v \in Strings}, description : {Some(v) : v \in Strings}]
EditPayloads == [title : {None} \cup {Some(v) : v \in Strings},
                 description : {None} \cup {Some(v) : v \in Strings}]

Next ==
    \/ \E u \in Users, p \in CreatePayloads, i \in Uuids : add_todo(u, p, i)
    \/ \E u \in Users, i \in Uuids, p \in EditPayloads, m \in BOOLEAN : edit_todo(u, i, p, m)
    \/ \E u \in Users, i \in Uuids : get_todo_by_id(u, i)
    \/ \E u \in Users, p \in Pagination : get_all_todo(u, p)

Spec == Init /\ [][Next]_vars

\* ------------------------------------------- concurrent edits, per statement
\* The row of table that (user, id) matches, as a set (empty or one row).
RowsOf(table) == {table[i] : i \in 1..Len(table)}
Matching(table, user, id) == {r \in RowsOf(table) : r.id = id /\ r.fk_user_id = user}

\* An edit request has passed the extractors; its UPDATE is on its way to
\* the store.  Two pending edits of one row by its owner, neither executed
\* yet, start a race (bookkeeping only: the row as it is now, who runs).
edit_request(s, user, todo_id, payload) ==
    /\ inflight[s] = None
    /\ clock < MaxClock
    /\ inflight' = [inflight EXCEPT ![s] =
           Some([user |-> user, id |-> todo_id, title |-> payload.title,
                 description |-> payload.description, pc |-> 0])]
    /\ LET rivals == {o \in Slots \ {s} : /\ inflight[o] # None
                                          /\ inflight[o][1].pc = 0
                                          /\ inflight[o][1].id = todo_id
                                          /\ inflight[o][1].user = user}
           rows == Matching(todo_list, user, todo_id)
           idle == race = None \/ race[1].final # None
       IN IF idle /\ rivals # {} /\ rows # {}
          THEN LET o == CHOOSE o \in rivals : TRUE
               IN race' = Some([id |-> todo_id, user |-> user,
                                base |-> CHOOSE r \in rows : TRUE,
                                left |-> {s, o}, order |-> <<>>, final |-> None])
          ELSE race' = race
    /\ UNCHANGED <<todo_list, clock, req, resp, repeats>>

\* The store executes the next UPDATE of the edit in slot s; after the last
\* one the handler answers.
edit_exec(s, moved) ==
    /\ inflight[s] # None
    /\ clock < MaxClock
    /\ LET e == inflight[s][1]
           k == e.pc + 1
           last == k = Len(EditStatements)
           stmt == UpdateStmt(todo_list, EditStatements[k], e.title, e.description,
                              e.user, e.id, clock + 1, moved)
           running == race # None /\ race[1].final = None
       IN /\ todo_list' = stmt.table
          /\ IF last
             THEN /\ inflight' = [inflight EXCEPT ![s] = None]
                  /\ Handled(Request("edit", e.user, Some(e.id), e.title, e.description, None),
                             edit_todo_response(fetch_one(stmt)))
             ELSE /\ inflight' = [inflight EXCEPT ![s] = Some([e EXCEPT !.pc = k])]
                  /\ UNCHANGED <<req, resp, repeats>>
          /\ IF running /\ s \in race[1].left
             THEN IF last
                  THEN LET left == race[1].left \ {s}
                           order == Append(race[1].order,
                                           [title |-> e.title, description |-> e.description,
                                            now |-> clock + 1])
                       IN race' = Some([race[1] EXCEPT
                              !.left = left, !.order = order,
                              !.final = IF left = {}
                                        THEN Some(CHOOSE r \in Matching(stmt.table, e.user, e.id) : TRUE)
                                        ELSE None])
                  ELSE race' = race
             ELSE IF running /\ e.id = race[1].id /\ e.user = race[1].user
                  THEN race' = None      \* a third edit of the row: the race is off
                  ELSE race' = race
    /\ clock' = clock + 1

RaceUsers == {"u1"}
RaceUuids == {1}

NextRace ==
    \/ \E u \in RaceUsers, p \in CreatePayloads, i \in RaceUuids : add_todo(u, p, i)
    \/ \E s \in Slots, u \in RaceUsers, i \in RaceUuids, p \in EditPayloads :
           edit_request(s, u, i, p)
    \/ \E s \in Slots, m \in BOOLEAN : edit_exec(s, m)

SpecRace == Init /\ [][NextRace]_vars

\* ------------------------------------------------------------------ claims
\* A handler ran to its answer in this step (specification Spec).
Answered(op) == clock' # clock /\ req'.op = op

\* What a row holds besides its timestamp.
Content(r) == [id |-> r.id, title |-> r.title, description |-> r.description,
               fk_user_id |-> r.fk_user_id]
Contents(table) == {Content(r) : r \in RowsOf(table)}
Max(a, b) == IF a > b THEN a ELSE b

\* C1 - ownership isolation: no response to user U carries an item owned by
\* another user, and a get or edit by U for the id of another user's item is
\* answered NotFound and leaves that item as it was.
C1_OwnershipIsolation ==
    [][ /\ \A i \in 1..Len(resp'.todo) : resp'.todo[i].fk_user_id = req'.user
        /\ (Answered("get") \/ Answered("edit")) =>
              \A r \in RowsOf(todo_list) :
                  (r.id = req'.id[1] /\ r.fk_user_id # req'.user) =>
                      /\ resp'.status = "NotFound"
                      /\ r \in RowsOf(todo_list') ]_vars

\* An edit for another user's item was answered, after the owner got it back
\* from the create.
C1_Witness ==
    /\ req.op = "edit"
    /\ req.title # None
    /\ resp.status = "NotFound"
    /\ \E r \in RowsOf(todo_list) : r.id = req.id[1] /\ r.fk_user_id # req.user

\* C2 - edit_todo answers the owner 200 with the updated item, and NotFound
\* only when no row matches (id, ownerId).
C2_EditSucceedsForOwner ==
    req.op = "edit" =>
        LET rows == Matching(todo_list, req.user, req.id[1])
        IN IF rows # {}
           THEN resp.status = "OK" /\ RowsOf(resp.todo) = rows
           ELSE resp.status = "NotFound"

\* C3 - get_todo_by_id answers the owner 200 with the stored item that
\* add_todo and edit_todo wrote, and NotFound only when no row matches.
C3_GetSucceedsForOwner ==
    req.op = "get" =>
        LET rows == Matching(todo_list, req.user, req.id[1])
        IN IF rows # {}
           THEN resp.status = "OK" /\ RowsOf(resp.todo) = rows
           ELSE resp.status = "NotFound"

\* C4 - a create answered 201 returns and stores an item owned by the caller
\* whose id no earlier item has; stored ids are pairwise different; a create
\* whose minted id is taken inserts nothing and answers ServerError.
C4_CreateOwnerAndUniqueId ==
    [][ /\ \A i, j \in 1..Len(todo_list') :
              todo_list'[i].id = todo_list'[j].id => i = j
        /\ Answered("add") =>
              /\ resp'.status = "CREATED" =>
                    /\ Len(resp'.todo) = 1
                    /\ resp'.todo[1].fk_user_id = req'.user
                    /\ \A r \in RowsOf(todo_list) : r.id # resp'.todo[1].id
                    /\ resp'.todo[1] \in RowsOf(todo_list')
              /\ (\E r \in RowsOf(todo_list) : r.id = req'.id[1]) =>
                    /\ todo_list' = todo_list
                    /\ resp'.status = "ServerError" ]_vars

\* A create minted the id of another user's item and was answered ServerError.
C4_Witness ==
    /\ req.op = "add"
    /\ resp.status = "ServerError"
    /\ \E r \in RowsOf(todo_list) : r.id = req.id[1] /\ r.fk_user_id # req.user

\* C5 - coalesce update: an edit by the owner that supplies only a title
\* leaves the description, id and owner of the matched item, sets its title,
\* advances its lastUpdate, and leaves every other item as it was.
C5_CoalesceUpdate ==
    [][ (Answered("edit") /\ req'.title # None /\ req'.description = None) =>
            \A r \in Matching(todo_list, req'.user, req'.id[1]) :
                \E n \in RowsOf(todo_list') :
                    /\ n.id = r.id
                    /\ n.fk_user_id = r.fk_user_id
                    /\ n.description = r.description
                    /\ n.title = req'.title[1]
                    /\ n.last_update > r.last_update
                    /\ RowsOf(todo_list') \ {n} = RowsOf(todo_list) \ {r}
                    /\ Len(todo_list') = Len(todo_list) ]_vars

\* The owner's title-only edit has changed the title of an item whose
\* description differs from it, next to an item of another user.
C5_Witness ==
    /\ req.op = "edit"
    /\ req.title = Some("a")
    /\ req.description = None
    /\ \E r \in Matching(todo_list, req.user, req.id[1]) :
           /\ r.title = "a"
           /\ r.description = ""
           /\ r.last_update = clock
           /\ \E o \in RowsOf(todo_list) : o.fk_user_id # req.user

\* The decimal digits of a non-negative integer, read back.
DigitValue(c) ==
    CASE c = "0" -> 0 [] c = "1" -> 1 [] c = "2" -> 2 [] c = "3" -> 3 [] c = "4" -> 4
      [] c = "5" -> 5 [] c = "6" -> 6 [] c = "7" -> 7 [] c = "8" -> 8 [] c = "9" -> 9
RECURSIVE ParseDecimal(_)
ParseDecimal(s) ==
    IF Len(s) = 1 THEN DigitValue(s[1])
    ELSE 10 * ParseDecimal(SubSeq(s, 1, Len(s) - 1)) + DigitValue(s[Len(s)])

\* C6 - list pagination: for page P and rowsPerPage N the list answered to U
\* is 200 with exactly the items at positions [P*N, P*N+N) of U's items in the
\* store's order (empty when there are none), and echoes P and N as strings.
C6_ListPagination ==
    req.op = "list" =>
        LET P == req.pagination[1].page
            N == req.pagination[1].no_of_rows
            mine == SelectSeq(todo_list, LAMBDA r : r.fk_user_id = req.user)
            count == Max(0, Min(N, Len(mine) - P * N))
        IN /\ resp.status = "OK"
           /\ Len(resp.todo) = count
           /\ \A j \in 1..count : resp.todo[j] = mine[P * N + j]
           /\ ParseDecimal(resp.currentPage) = P
           /\ ParseDecimal(resp.noOfRows) = N

\* A page after the first came back with an item on it.
C6_Witness ==
    /\ req.op = "list"
    /\ req.pagination[1].page >= 1
    /\ Len(resp.todo) >= 1

\* C7 - validation does not block create: whatever title and description are
\* (empty included), the insert runs, and the answer is 201 with the stored
\* item exactly when the insert stored a row, ServerError otherwise.
C7_ValidationDoesNotBlockCreate ==
    [][ Answered("add") =>
            LET fresh == \A r \in RowsOf(todo_list) : r.id # req'.id[1]
                made == [id |-> req'.id[1], title |-> req'.title[1],
                         description |-> req'.description[1], fk_user_id |-> req'.user]
            IN /\ fresh => /\ Len(todo_list') = Len(todo_list) + 1
                           /\ Content(todo_list'[Len(todo_list')]) = made
                           /\ resp'.status = "CREATED"
                           /\ resp'.todo = <<todo_list'[Len(todo_list')]>>
               /\ ~fresh => /\ todo_list' = todo_list
                            /\ resp'.status = "ServerError" ]_vars

\* A create with an empty title and an empty description was stored and
\* answered 201.
C7_Witness ==
    /\ req.op = "add"
    /\ req.title = Some("")
    /\ req.description = Some("")
    /\ resp.status = "CREATED"
    /\ resp.todo[1].title = ""

\* C8 - edit idempotence on content: the same edit_todo request handled twice
\* in a row leaves, the second time, every stored title and description as
\* the first left them, and is answered with the same kind of response.
C8_EditIdempotentOnContent ==
    [][ (Answered("edit") /\ req.op = "edit" /\ req' = req) =>
            /\ Contents(todo_list') = Contents(todo_list)
            /\ resp'.status = resp.status ]_vars

\* The owner's edit of an item has just been handled a second time in a row.
C8_Witness ==
    /\ req.op = "edit"
    /\ repeats >= 1
    /\ req.title # None
    /\ \E r \in Matching(todo_list, req.user, req.id[1]) : r.last_update = clock

\* A field value after edit e on top of the value v.
Later(arg, v) == IF arg = None THEN v ELSE arg[1]
Serial(r, first, second) ==
    [id |-> r.id, fk_user_id |-> r.fk_user_id,
     title |-> Later(second.title, Later(first.title, r.title)),
     description |-> Later(second.description, Later(first.description, r.description))]

\* C9 - concurrent edits are atomic per statement, last writer wins: after
\* two edits of one item by its owner that were in flight together have both
\* run, the row is what one of the two serial orders gives (timestamp: that of
\* the later statement); and no pending edit that supplies both fields has
\* written its title without its description.
C9_ConcurrentEditsSerial ==
    /\ (race # None /\ race[1].final # None) =>
           LET base == race[1].base
               a == race[1].order[1]
               b == race[1].order[2]
               final == race[1].final[1]
           IN /\ Content(final) \in {Serial(base, a, b), Serial(base, b, a)}
              /\ final.last_update = Max(a.now, b.now)
    /\ \A s \in Slots :
           inflight[s] # None =>
               LET e == inflight[s][1]
                   written == UNION {EditStatements[k] : k \in 1..e.pc}
               IN (e.title # None /\ e.description # None /\ "title" \in written)
                      => "description" \in written

\* Two edits in flight together, supplying different titles and one of them a
\* description, have both run.
C9_Witness ==
    /\ race # None
    /\ race[1].final # None
    /\ race[1].order[1].title # None
    /\ race[1].order[2].title # None
    /\ race[1].order[1].title # race[1].order[2].title
    /\ race[1].order[1].description # None
    /\ race[1].order[2].description = None

\* C10 - state unchanged on edit error: an edit_todo answered with an error
\* has modified no stored item.
C10_EditErrorLeavesState ==
    [][ (Answered("edit") /\ resp'.status = "NotFound") =>
            RowsOf(todo_list') = RowsOf(todo_list) ]_vars

====
